---------------------------- MODULE Spec2Model ----------------------------
(***************************************************************************)
(* GRASP for the capacitated single-item lot-sizing problem (C-SILSP):     *)
(* the decoder, the greedy randomized constructor, the bit-flip local      *)
(* search and the time-budgeted driver of src/solvers/grasp_csilsp.py.     *)
(*                                                                         *)
(* Periods are numbered 1..T here (0..T-1 in the source).                  *)
(***************************************************************************)
EXTENDS Integers, Sequences, FiniteSets, TLC

(***************************************************************************)
(* Bounds of the model.                                                    *)
(***************************************************************************)
MaxT == 3
MaxDem == 2
MaxCap == 4

(***************************************************************************)
(* Exact arithmetic.  The source computes in floating point with the       *)
(* constants 1e15, 1e6, 1e-6 and 1e-9.  A number is represented here as a  *)
(* finite sum of integer multiples of powers of eps = 1e-9,                *)
(*      x = SUM over k in Exps of x[k] * eps^k,                            *)
(* so 1e15 is digit 10^6 at exponent -1 and 1e-9 is digit 1 at exponent 1. *)
(* Digits are signed and are not normalised; as long as every digit is     *)
(* below 10^8 in absolute value the sign of a number is the sign of its    *)
(* leading digit, so the comparisons below are exact.                      *)
(***************************************************************************)
MinExp == 0 - 1
MaxExp == 4
Exps == MinExp..MaxExp

Zero == [k \in Exps |-> 0]
Digit(n, e) == [k \in Exps |-> IF k = e THEN n ELSE 0]
Int2Num(n) == Digit(n, 0)
Add(a, b) == [k \in Exps |-> a[k] + b[k]]
Sub(a, b) == [k \in Exps |-> a[k] - b[k]]
Scale(n, a) == [k \in Exps |-> n * a[k]]

\* x * eps, and x * (n + eps)
ShiftEps(a) == [k \in Exps |-> IF k = MinExp THEN 0 ELSE a[k - 1]]
MulIntPlusEps(a, n) == [k \in Exps |-> n * a[k] + (IF k = MinExp THEN 0 ELSE a[k - 1])]

RECURSIVE SignFrom(_, _)
SignFrom(a, k) ==
    IF k > MaxExp THEN 0
    ELSE IF a[k] > 0 THEN 1
    ELSE IF a[k] < 0 THEN -1
    ELSE SignFrom(a, k + 1)
Sign(a) == SignFrom(a, MinExp)
Lt(a, b) == Sign(Sub(a, b)) < 0
Le(a, b) == Sign(Sub(a, b)) <= 0
Ge(a, b) == Le(b, a)

Min2(a, b) == IF a <= b THEN a ELSE b

\* BIGM = 1e15, PENALTY = 1e6
BIGM == Digit(10^6, -1)
PENALTY == 10^6
\* BIGM / 2, the threshold of the driver and of the feasibility flag
HalfBIGM == Digit(5 * 10^5, -1)
\* the quantities d, C, R, X, inv are integers, so r > 1e-6 iff r > 0
\* and inv < -1e-6 iff inv < 0
AboveTol(r) == r > 0
BelowNegTol(r) == r < 0

(***************************************************************************)
(* Instances (load_instance): T, d, s, p, h, C, all of length T.           *)
(* Demands and capacities are small non-negative integers; s is a number   *)
(* (it may be huge), p and h are small integers.                           *)
(***************************************************************************)
DemVals == {0, 1, MaxDem}
CapVals == {0, 1, MaxCap}
\* a setup cost of 5 as in scenario A, and one of 1e15 (integer costs up
\* to 2^53 are exact in the source's floating point)
SmallSetup == Int2Num(5)
HugeSetup == Digit(10^6, -1)

None == << >>
Vectors(T) == [1..T -> {0, 1}]
AllOnes(T) == [k \in 1..T |-> 1]

RECURSIVE SumTo(_, _)
SumTo(f, n) == IF n = 0 THEN 0 ELSE f[n] + SumTo(f, n - 1)

(***************************************************************************)
(* decode_solution: backward pass, forward pass, cost.                     *)
(***************************************************************************)
\* mutant: the production of a period is not taken off R
RECURSIVE BackwardPassKeepsR(_, _, _, _, _, _)
BackwardPassKeepsR(t, R, X, yv, d, C) ==
    IF t = 0 THEN [R |-> R, X |-> X]
    ELSE LET R1 == R + d[t]
         IN  IF yv[t] = 1
             THEN LET x_t == Min2(C[t], R1)
                  IN  BackwardPassKeepsR(t - 1, R1, [X EXCEPT ![t] = x_t], yv, d, C)
             ELSE BackwardPassKeepsR(t - 1, R1, X, yv, d, C)

\* mutant: a period produces whatever is asked of it, capacity or not
RECURSIVE BackwardPassNoCap(_, _, _, _, _, _)
BackwardPassNoCap(t, R, X, yv, d, C) ==
    IF t = 0 THEN [R |-> R, X |-> X]
    ELSE LET R1 == R + d[t]
         IN  IF yv[t] = 1
             THEN BackwardPassNoCap(t - 1, 0, [X EXCEPT ![t] = R1], yv, d, C)
             ELSE BackwardPassNoCap(t - 1, R1, X, yv, d, C)

\* mutant: every period produces, setup or not
RECURSIVE BackwardPassIgnoresY(_, _, _, _, _, _)
BackwardPassIgnoresY(t, R, X, yv, d, C) ==
    IF t = 0 THEN [R |-> R, X |-> X]
    ELSE LET R1 == R + d[t]
             x_t == Min2(C[t], R1)
         IN  BackwardPassIgnoresY(t - 1, R1 - x_t, [X EXCEPT ![t] = x_t], yv, d, C)

RECURSIVE BackwardPass(_, _, _, _, _, _)
BackwardPass(t, R, X, yv, d, C) ==
    IF t = 0 THEN [R |-> R, X |-> X]
    ELSE LET R1 == R + d[t]
         IN  IF yv[t] = 1
             THEN LET x_t == Min2(C[t], R1)
                  IN  BackwardPass(t - 1, R1 - x_t, [X EXCEPT ![t] = x_t], yv, d, C)
             ELSE BackwardPass(t - 1, R1, X, yv, d, C)

\* the forward pass: the inventory after period t, and the first period
\* (0 if none) at which it drops below the tolerance
RECURSIVE ForwardPass(_, _, _, _, _, _)
ForwardPass(t, inv, I, X, d, T) ==
    IF t > T THEN [short |-> 0, I |-> I]
    ELSE LET inv1 == inv + X[t] - d[t]
         IN  IF BelowNegTol(inv1) THEN [short |-> 0 - inv1, I |-> I]
             ELSE ForwardPass(t + 1, inv1, [I EXCEPT ![t] = inv1], X, d, T)

RECURSIVE CostSum(_, _, _, _, _)
CostSum(t, yv, X, I, in) ==
    IF t = 0 THEN Zero
    ELSE Add(CostSum(t - 1, yv, X, I, in),
             Add(Scale(yv[t], in.s[t]),
                 Int2Num(in.p[t] * X[t] + in.h[t] * I[t])))

\* mutant: the penalty without bigM
PenaltyUnmetNoBigM(R) == Int2Num(R * PENALTY)
PenaltyUnmet(R) == Add(BIGM, Int2Num(R * PENALTY))
PenaltyShort(inv) == Add(BIGM, Int2Num(inv * PENALTY))

decode_solution(yv, in) ==
    LET T  == in.T
        bw == BackwardPass(T, 0, [k \in 1..T |-> 0], yv, in.d, in.C)
    IN  IF AboveTol(bw.R)
        THEN [X |-> None, I |-> None, cost |-> PenaltyUnmet(bw.R), branch |-> "unmet"]
        ELSE LET fw == ForwardPass(1, 0, [k \in 1..T |-> 0], bw.X, in.d, T)
             IN  IF fw.short > 0
                 THEN [X |-> None, I |-> None, cost |-> PenaltyShort(fw.short),
                       branch |-> "short"]
                 ELSE [X |-> bw.X, I |-> fw.I,
                       cost |-> CostSum(T, yv, bw.X, fw.I, in), branch |-> "ok"]

(***************************************************************************)
(* greedy_randomized_construction.  A candidate lot of length L starting   *)
(* at t carries the numerator num = setup_cost + prod_cost + hold_cost and *)
(* the lot demand dem of its avg_cost = num / (dem + 1e-9).  The quotient  *)
(* is never formed: avg_costs are compared by cross-multiplication with    *)
(* the positive denominators, which is the same comparison.                *)
(***************************************************************************)
RECURSIVE SumRange(_, _, _)
SumRange(f, a, b) == IF a > b THEN 0 ELSE f[b] + SumRange(f, a, b - 1)

\* prod_cost = sum(p[k] * d[k] for k in range(t, end + 1))
RECURSIVE ProdCost(_, _, _)
ProdCost(in, a, b) ==
    IF a > b THEN 0 ELSE in.p[b] * in.d[b] + ProdCost(in, a, b - 1)

\* hold_cost: for k in t+1..end: cum += d[k]; hold_cost += h[k] * cum
RECURSIVE HoldCost(_, _, _)
HoldCost(in, t0, end) ==
    IF end <= t0 THEN 0
    ELSE in.h[end] * SumRange(in.d, t0 + 1, end) + HoldCost(in, t0, end - 1)

LotDemand(in, t0, L) == SumRange(in.d, t0, t0 + L - 1)

\* the lengths L in 1..Lmax whose lot ends inside the horizon and whose
\* demand fits the capacity of period t0 (cap + 1e-6 < dem discards)
CandidateLengths(in, t0, Lmax) ==
    { L \in 1..Lmax : /\ t0 + L - 1 <= in.T
                      /\ ~ (in.C[t0] < LotDemand(in, t0, L)) }

Candidate(in, t0, L) ==
    [L   |-> L,
     num |-> Add(in.s[t0],
                 Int2Num(ProdCost(in, t0, t0 + L - 1) + HoldCost(in, t0, t0 + L - 1))),
     dem |-> LotDemand(in, t0, L)]

Candidates(in, t0, Lmax) ==
    { Candidate(in, t0, L) : L \in CandidateLengths(in, t0, Lmax) }

\* x * (dem + 1e-9), the denominator of c's avg_cost
MulDen(x, c) == MulIntPlusEps(x, c.dem)
\* avg_cost(a) <= avg_cost(b)
LeAvg(a, b) == Le(MulDen(a.num, b), MulDen(b.num, a))
EqAvg(a, b) == LeAvg(a, b) /\ LeAvg(b, a)

\* a candidate of minimal / maximal avg_cost (c_min, c_max)
MinCand(cands) == CHOOSE c \in cands : \A o \in cands : LeAvg(c, o)
MaxCand(cands) == CHOOSE c \in cands : \A o \in cands : LeAvg(o, c)

\* mutant: c < thresh
WithinThreshStrict(c, cmin, cmax, al) ==
    LET lhs == Scale(al[2], MulDen(MulDen(c.num, cmin), cmax))
        rhs == Add(Scale(al[2], MulDen(MulDen(cmin.num, c), cmax)),
                   Scale(al[1],
                         Add(Sub(MulDen(MulDen(cmax.num, c), cmin),
                                 MulDen(MulDen(cmin.num, c), cmax)),
                             ShiftEps(MulDen(MulDen(MulDen(Int2Num(1), c), cmin),
                                             cmax)))))
    IN  Lt(lhs, rhs)

\* c <= thresh, thresh = c_min + alpha * (c_max - c_min + 1e-9), with
\* alpha = al[1] / al[2]; both sides multiplied by the positive
\* al[2] * Den(c) * Den(cmin) * Den(cmax)
WithinThresh(c, cmin, cmax, al) ==
    LET lhs == Scale(al[2], MulDen(MulDen(c.num, cmin), cmax))
        rhs == Add(Scale(al[2], MulDen(MulDen(cmin.num, c), cmax)),
                   Scale(al[1],
                         Add(Sub(MulDen(MulDen(cmax.num, c), cmin),
                                 MulDen(MulDen(cmin.num, c), cmax)),
                             ShiftEps(MulDen(MulDen(MulDen(Int2Num(1), c), cmin),
                                             cmax)))))
    IN  Le(lhs, rhs)

\* RCL = [L for L, c in candidates if c <= thresh]
RCL(cands, al) ==
    LET cmin == MinCand(cands)
        cmax == MaxCand(cands)
    IN  { c.L : c \in { c \in cands : WithinThresh(c, cmin, cmax, al) } }

\* alpha as a fraction <<numerator, denominator>>: 0, the default 0.3, 1
Alphas == {<<0, 1>>, <<3, 10>>, <<1, 1>>}
DefaultAlpha == <<3, 10>>
DefaultLmax == 10

(***************************************************************************)
(* The random module's generator.  A generator nobody seeded is in a state *)
(* the program cannot know: its draws are any member of the list.  A       *)
(* seeded one is a number: random.seed(n) puts it in a state that depends  *)
(* on n only, and every draw is a function of the state and of the list,   *)
(* and moves the state on.  The real generator (the Mersenne Twister) is   *)
(* such a function over a larger state; this one is a small congruential   *)
(* generator.  random.choice(RCL) indexes the list RCL, which line 149     *)
(* builds in increasing L.                                                 *)
(***************************************************************************)
RngMod == 16
Unseeded == 0 - 1
Seeded(n) == (7 * n + 3) % RngMod
Advance(g) == IF g = Unseeded THEN Unseeded ELSE (5 * g + 3) % RngMod
\* the member of S with i smaller ones
NthOf(S, i) == CHOOSE x \in S : Cardinality({z \in S : z < x}) = i
\* what random.choice may return for the lengths S: any member in an
\* unknown state, the member the state selects otherwise
RandomChoice(g, S) ==
    IF g = Unseeded THEN S ELSE {NthOf(S, g % Cardinality(S))}
\* the history of the draws, for the runs that keep one
NoTrace == [on |-> FALSE, lots |-> << >>]
NewTrace == [on |-> TRUE, lots |-> << >>]
Record(tr, L) == IF tr.on THEN [tr EXCEPT !.lots = Append(@, L)] ELSE tr

(***************************************************************************)
(* Lists are objects and names are bound to them.  refs gives, for the     *)
(* names of grasp that hold a setup vector, the object each is bound to    *)
(* (0: none): y_trivial, best_y, y_construida, the driver's y, and the y   *)
(* of the running local_search call.  A new list (a literal, a slice       *)
(* x[:], the constructor's [0] * T) is an object no name is bound to; an   *)
(* assignment without a slice binds the name to the object of the right    *)
(* hand side.  A write through one name (y[t] ^= 1) is seen through every  *)
(* name bound to the same object.                                          *)
(***************************************************************************)
Names == {"trivial", "best", "cons", "drv", "ls"}
NoRefs == [on |-> FALSE, trivial |-> 0, best |-> 0, cons |-> 0, drv |-> 0, ls |-> 0]
NewRefs == [NoRefs EXCEPT !.on = TRUE]
InUse(r) == { r[n] : n \in Names }
Fresh(r) == CHOOSE i \in 1..(Cardinality(Names) + 1) :
               /\ i \notin InUse(r)
               /\ \A j \in 1..(i - 1) : j \in InUse(r)
Bind(r, name, obj) == IF r.on THEN [r EXCEPT ![name] = obj] ELSE r
New(r, name) == Bind(r, name, Fresh(r))
SameList(r, a, b) == r.on /\ r[a] # 0 /\ r[a] = r[b]

(***************************************************************************)
(* Bounds of the runs: iterations, and the clock (in ticks of 1e-6 s).     *)
(***************************************************************************)
MaxIter == 2
MaxClock == 1

VARIABLES
    inst,          \* the instance T, d, s, p, h, C
    max_iter, alpha, L_max,
    time_limit,    \* None, or <<limit>>
    now,           \* time.time() - start_time
    pc,            \* the position in the code
    it,            \* iterations of the driver's loop started
    t, yc,         \* the constructor's cursor and its y
    y,             \* the vector local_search works on (the decoder's input)
    y_start,       \* history: the vector local_search was called with
    ls_best_cost, improved, ls_t,   \* local_search's best_cost, improved, t
    best_y, best_cost, log,         \* the driver's best and log_convergencia
    X, I,          \* the plan the driver returns
    res,           \* the result of the last decode_solution call on its own
    late,          \* history: decode calls started at or after the deadline
    files, fi,     \* the runner's sorted .txt files and the one it is at
    rows,          \* the runner's summary rows
    saved,         \* the files whose convergence log was saved
    reported,      \* the files for which the runner printed an error
    summary,       \* the summary written, None before
    bpc,           \* the runner's position in the code
    seed,          \* grasp's seed: None, or <<number>>
    rng,           \* the state of the random module's generator
    trace,         \* history: the lots random.choice returned, if kept
    first,         \* history: None, or <<what an earlier call of grasp returned>>
    viol,          \* two violations (unmet demand or shortfall), in units of 1e-9
    score,         \* None, or the two penalized scores, as eighths above bigM
    variant,       \* which grasp runs: "solvers" or "benchmark"
    refs           \* the list object each name of grasp is bound to, if kept

params == <<inst, max_iter, alpha, L_max, time_limit>>
consVars == <<t, yc>>
lsVars == <<y, y_start, ls_best_cost, improved, ls_t>>
drvVars == <<it, best_y, best_cost, log, X, I>>
batchVars == <<files, fi, rows, saved, reported, summary, bpc>>
\* what belongs to the callers of grasp
rngVars == <<seed, rng, trace, first>>
\* what belongs to the penalty taken on its own
aside == <<viol, score>>
heapVars == <<variant, refs>>
ext == <<batchVars, rngVars, aside, heapVars>>
vars == <<params, now, pc, consVars, lsVars, drvVars, res, late, ext>>

NoResult == [X |-> None, I |-> None, cost |-> Zero, branch |-> "none"]

UniformInst(T, d, C, sv, pv, hv) ==
    [T |-> T, d |-> d, C |-> C, s |-> [k \in 1..T |-> sv],
     p |-> [k \in 1..T |-> pv], h |-> [k \in 1..T |-> hv]]

\* every demand and capacity vector, small and huge setup costs
DecInstances ==
    UNION { { UniformInst(T, d, C, sv, 1, 1) :
                d \in [1..T -> DemVals], C \in [1..T -> CapVals],
                sv \in {SmallSetup, HugeSetup} } : T \in 1..MaxT }

\* the same with small setup costs only
SmallInstances == { in \in DecInstances : in.s[1] = SmallSetup }

\* what the variables of the parts not running hold
IdleCons == t = 1 /\ yc = << >>
IdleLS == /\ y_start = << >> /\ ls_best_cost = Zero
          /\ improved = FALSE /\ ls_t = 1
\* the locals of a call that has returned are gone: they hold the idle
\* values again
ConsLocalsGone == t' = 1 /\ yc' = << >>
LSLocalsGone == /\ y' = << >> /\ y_start' = << >> /\ ls_best_cost' = Zero
                /\ improved' = FALSE /\ ls_t' = 1
IdleDrv == /\ it = 0 /\ best_y = << >> /\ best_cost = Zero /\ log = << >>
           /\ X = None /\ I = None
\* no runner: grasp, or a part of it, is called on its own
IdleBatch == /\ files = << >> /\ fi = 1 /\ rows = << >> /\ saved = {}
             /\ reported = {} /\ summary = None /\ bpc = "none"
\* grasp's default seed=None, a generator nobody seeded, no history kept
IdleRng == seed = None /\ rng = Unseeded /\ trace = NoTrace /\ first = None
IdleAside == viol = << >> /\ score = None
IdleHeap == variant = "solvers" /\ refs = NoRefs
IdleExt == IdleBatch /\ IdleRng /\ IdleAside /\ IdleHeap

(***************************************************************************)
(* The clock.  now is the elapsed time as far as the run can tell: time    *)
(* passes, by any amount including none (a coarse clock), in the steps     *)
(* that read time.time() or start a decode call, and those reads and       *)
(* calls happen at now'.  Without a time limit the deadline checks do not  *)
(* read the clock (line 178: time_limit is not None and ...).              *)
(***************************************************************************)
ReadClock == now' \in now..MaxClock
Observe == IF time_limit = None THEN now' = now ELSE ReadClock

\* time_limit is not None and (time.time() - start_time) >= time_limit
TimeUp(clock) == time_limit # None /\ clock >= time_limit[1]

\* a decode call of the search that starts at or after the deadline
PastDeadline(clock) == time_limit # None /\ clock >= time_limit[1]
CountDecode == late' = late + (IF PastDeadline(now') THEN 1 ELSE 0)

\* no time limit, one that has expired at the start, one that expires later
TimeLimits == {None, <<0>>, <<1>>}

(***************************************************************************)
(* The decoder on its own: any instance, any setup vector.  SpecDecode     *)
(* draws costs of ordinary size, SpecDecodeHuge also setup costs of 1e15.  *)
(***************************************************************************)
DecStart(instances) ==
    /\ inst \in instances
    /\ y \in Vectors(inst.T)
    /\ pc = "decode"
    /\ res = NoResult
    /\ max_iter = 0 /\ alpha = DefaultAlpha /\ L_max = 1 /\ time_limit = None
    /\ now = 0 /\ late = 0
    /\ IdleCons /\ IdleLS /\ IdleDrv /\ IdleExt

DecInit == DecStart(SmallInstances)
DecInitHuge == DecStart(DecInstances)

DecodeCall ==
    /\ pc = "decode"
    /\ res' = decode_solution(y, inst)
    /\ pc' = "decoded"
    /\ UNCHANGED <<ext, params, now, consVars, lsVars, drvVars, late>>

DecNext == DecodeCall

SpecDecode == DecInit /\ [][DecNext]_vars
SpecDecodeHuge == DecInitHuge /\ [][DecNext]_vars

(***************************************************************************)
(* One iteration of the constructor's while loop (lines 107-153); the      *)
(* loop is left, and y returned, when the cursor passes the horizon.       *)
(* random.choice(RCL) is a nondeterministic member of the RCL.             *)
(***************************************************************************)
\* mutant: the forced setup does not move the cursor
ConstructStepStuck ==
    /\ pc = "construct"
    /\ t <= inst.T
    /\ LET cands == Candidates(inst, t, L_max)
       IN  \/ /\ cands = {}
              /\ yc' = [yc EXCEPT ![t] = 1]
              /\ t' = t
              /\ pc' = "construct"
              /\ UNCHANGED <<rng, trace>>
           \/ /\ cands # {}
              /\ \E L_chosen \in RandomChoice(rng, RCL(cands, alpha)) :
                    /\ yc' = [yc EXCEPT ![t] = 1]
                    /\ t' = t + L_chosen
                    /\ pc' = IF t + L_chosen > inst.T THEN "constructed"
                             ELSE "construct"
                    /\ trace' = Record(trace, L_chosen)
              /\ rng' = Advance(rng)
    /\ UNCHANGED <<batchVars, aside, heapVars, seed, first, params, now, lsVars,
                   drvVars, res, late>>

ConstructStep ==
    /\ pc = "construct"
    /\ t <= inst.T
    /\ LET cands == Candidates(inst, t, L_max)
       IN  \/ /\ cands = {}
              /\ yc' = [yc EXCEPT ![t] = 1]
              /\ t' = t + 1
              /\ pc' = IF t + 1 > inst.T THEN "constructed" ELSE "construct"
              /\ UNCHANGED <<rng, trace>>
           \/ /\ cands # {}
              /\ \E L_chosen \in RandomChoice(rng, RCL(cands, alpha)) :
                    /\ yc' = [yc EXCEPT ![t] = 1]
                    /\ t' = t + L_chosen
                    /\ pc' = IF t + L_chosen > inst.T THEN "constructed"
                             ELSE "construct"
                    /\ trace' = Record(trace, L_chosen)
              /\ rng' = Advance(rng)
    /\ UNCHANGED <<batchVars, aside, heapVars, seed, first, params, now, lsVars,
                   drvVars, res, late>>

\* the constructor reads C only in the capacity filter: one capacity
\* below and one above the demands
ConsInstances == { in \in SmallInstances : \A k \in 1..in.T : in.C[k] # 0 }

ConsInit ==
    /\ inst \in ConsInstances
    /\ alpha \in Alphas
    /\ L_max \in 0..inst.T
    /\ pc = "construct"
    /\ t = 1
    /\ yc = [k \in 1..inst.T |-> 0]
    /\ y = << >> /\ res = NoResult
    /\ max_iter = 0 /\ time_limit = None /\ now = 0 /\ late = 0
    /\ IdleLS /\ IdleDrv /\ IdleExt

ConsNext == ConstructStep

SpecCons == ConsInit /\ [][ConsNext]_vars

(***************************************************************************)
(* local_search (lines 160-197).                                           *)
(***************************************************************************)
Flip(yv, k) == [yv EXCEPT ![k] = 1 - yv[k]]

\* lines 169-174: the initial decode
LSStart ==
    /\ pc = "ls_start"
    /\ Observe
    /\ CountDecode
    /\ ls_best_cost' = decode_solution(y, inst).cost
    /\ improved' = TRUE
    /\ pc' = "ls_while"
    /\ UNCHANGED <<ext, params, consVars, y, y_start, ls_t, drvVars, res>>

\* lines 176-182: the while test, the deadline check, the start of a sweep
LSWhile ==
    /\ pc = "ls_while"
    /\ \/ /\ ~ improved
          /\ pc' = "ls_return"
          /\ UNCHANGED <<now, improved, ls_t>>
       \/ /\ improved
          /\ Observe
          /\ TimeUp(now')
          /\ pc' = "ls_return"
          /\ UNCHANGED <<improved, ls_t>>
       \/ /\ improved
          /\ Observe
          /\ ~ TimeUp(now')
          /\ improved' = FALSE
          /\ ls_t' = 1
          /\ pc' = "ls_for"
    /\ UNCHANGED <<ext, params, consVars, y, y_start, ls_best_cost, drvVars, res, late>>

\* mutant: no deadline check before a flip
LSForNoCheck ==
    /\ pc = "ls_for"
    /\ \/ /\ ls_t > inst.T
          /\ pc' = "ls_while"
          /\ UNCHANGED now
       \/ /\ ls_t <= inst.T
          /\ Observe
          /\ pc' = "ls_flip"
    /\ UNCHANGED <<ext, params, consVars, lsVars, drvVars, res, late>>

\* lines 182-185: the next t of the sweep, and the deadline check
LSFor ==
    /\ pc = "ls_for"
    /\ \/ /\ ls_t > inst.T
          /\ pc' = "ls_while"
          /\ UNCHANGED now
       \/ /\ ls_t <= inst.T
          /\ Observe
          /\ TimeUp(now')
          /\ pc' = "ls_while"
       \/ /\ ls_t <= inst.T
          /\ Observe
          /\ ~ TimeUp(now')
          /\ pc' = "ls_flip"
    /\ UNCHANGED <<ext, params, consVars, lsVars, drvVars, res, late>>

\* mutant: a rejected flip is not undone
LSFlipNoUndo ==
    /\ pc = "ls_flip"
    /\ Observe
    /\ CountDecode
    /\ LET cost == decode_solution(Flip(y, ls_t), inst).cost
       IN  \/ /\ Lt(cost, ls_best_cost)
              /\ y' = Flip(y, ls_t)
              /\ ls_best_cost' = cost
              /\ improved' = TRUE
              /\ pc' = "ls_while"
              /\ UNCHANGED ls_t
           \/ /\ ~ Lt(cost, ls_best_cost)
              /\ y' = Flip(y, ls_t)
              /\ ls_t' = ls_t + 1
              /\ pc' = "ls_for"
              /\ UNCHANGED <<ls_best_cost, improved>>
    /\ best_y' = IF SameList(refs, "best", "ls") THEN y' ELSE best_y
    /\ UNCHANGED <<ext, params, consVars, y_start, it, best_cost, log, X, I, res>>

\* mutant: a flip of equal cost is kept too
LSFlipTies ==
    /\ pc = "ls_flip"
    /\ Observe
    /\ CountDecode
    /\ LET cost == decode_solution(Flip(y, ls_t), inst).cost
       IN  \/ /\ Le(cost, ls_best_cost)
              /\ y' = Flip(y, ls_t)
              /\ ls_best_cost' = cost
              /\ improved' = TRUE
              /\ pc' = "ls_while"
              /\ UNCHANGED ls_t
           \/ /\ ~ Le(cost, ls_best_cost)
              /\ y' = Flip(Flip(y, ls_t), ls_t)
              /\ ls_t' = ls_t + 1
              /\ pc' = "ls_for"
              /\ UNCHANGED <<ls_best_cost, improved>>
    /\ best_y' = IF SameList(refs, "best", "ls") THEN y' ELSE best_y
    /\ UNCHANGED <<ext, params, consVars, y_start, it, best_cost, log, X, I, res>>

\* mutant: an accepted flip does not end the sweep
LSFlipNoRestart ==
    /\ pc = "ls_flip"
    /\ Observe
    /\ CountDecode
    /\ LET cost == decode_solution(Flip(y, ls_t), inst).cost
       IN  \/ /\ Lt(cost, ls_best_cost)
              /\ y' = Flip(y, ls_t)
              /\ ls_best_cost' = cost
              /\ improved' = TRUE
              /\ ls_t' = ls_t + 1
              /\ pc' = "ls_for"
           \/ /\ ~ Lt(cost, ls_best_cost)
              /\ y' = Flip(Flip(y, ls_t), ls_t)
              /\ ls_t' = ls_t + 1
              /\ pc' = "ls_for"
              /\ UNCHANGED <<ls_best_cost, improved>>
    /\ best_y' = IF SameList(refs, "best", "ls") THEN y' ELSE best_y
    /\ UNCHANGED <<ext, params, consVars, y_start, it, best_cost, log, X, I, res>>

\* lines 187-194: flip, decode, keep the flip or undo it
LSFlip ==
    /\ pc = "ls_flip"
    /\ Observe
    /\ CountDecode
    /\ LET cost == decode_solution(Flip(y, ls_t), inst).cost
       IN  \/ /\ Lt(cost, ls_best_cost)
              /\ y' = Flip(y, ls_t)
              /\ ls_best_cost' = cost
              /\ improved' = TRUE
              /\ pc' = "ls_while"
              /\ UNCHANGED ls_t
           \/ /\ ~ Lt(cost, ls_best_cost)
              /\ y' = Flip(Flip(y, ls_t), ls_t)
              /\ ls_t' = ls_t + 1
              /\ pc' = "ls_for"
              /\ UNCHANGED <<ls_best_cost, improved>>
    /\ best_y' = IF SameList(refs, "best", "ls") THEN y' ELSE best_y
    /\ UNCHANGED <<ext, params, consVars, y_start, it, best_cost, log, X, I, res>>

\* scenario A: ample capacity; scenario B: demand above capacity
ScenarioA == UniformInst(3, [k \in 1..3 |-> 10], [k \in 1..3 |-> 30], SmallSetup, 1, 1)
ScenarioB == UniformInst(3, [k \in 1..3 |-> 10], [k \in 1..3 |-> 1], SmallSetup, 1, 1)

\* two-valued demands and capacities, small and huge setup costs, and the
\* two scenarios
RunInstances ==
    UNION { { UniformInst(T, d, C, sv, 1, 1) :
                d \in [1..T -> {0, MaxDem}], C \in [1..T -> {1, MaxCap}],
                sv \in {SmallSetup, HugeSetup} } : T \in 1..MaxT }
    \cup {ScenarioA, ScenarioB}

\* the instances of ordinary cost among them
SmallRunInstances == { in \in RunInstances : in.s[1] = SmallSetup }

LSInit ==
    /\ inst \in SmallRunInstances
    /\ y \in Vectors(inst.T)
    /\ y_start = y
    /\ time_limit \in TimeLimits
    /\ now = 0 /\ late = 0
    /\ pc = "ls_start"
    /\ ls_best_cost = Zero /\ improved = FALSE /\ ls_t = 1
    /\ max_iter = 0 /\ alpha = DefaultAlpha /\ L_max = 1
    /\ res = NoResult
    /\ IdleCons /\ IdleDrv /\ IdleExt

LSNext == LSStart \/ LSWhile \/ LSFor \/ LSFlip

SpecLS == LSInit /\ [][LSNext]_vars

\* local_search called without a time limit on the instances of constant
\* capacity whose demand is constant before the last period; the
\* interpreter runs the next statement of a call that has not returned
LSInitNoLimit ==
    /\ LSInit
    /\ time_limit = None
    /\ \A k \in 1..inst.T : inst.C[k] = inst.C[1]
    /\ \A k \in 1..(inst.T - 1) : inst.d[k] = inst.d[1]
SpecLSFair == LSInitNoLimit /\ [][LSNext]_vars /\ WF_vars(LSNext)

(***************************************************************************)
(* grasp (lines 202-265).  start_time is 0: now is the elapsed time.       *)
(***************************************************************************)
\* mutant: the generator is not seeded
GraspStartNoSeed ==
    /\ pc = "start"
    /\ rng' = rng
    /\ ReadClock
    /\ CountDecode
    /\ best_y' = AllOnes(inst.T)
    /\ best_cost' = decode_solution(AllOnes(inst.T), inst).cost
    /\ log' = << <<now' + 1, best_cost'>> >>
    /\ it' = 0
    /\ pc' = "iter"
    /\ refs' = New(New(refs, "trivial"), "best")
    /\ UNCHANGED <<batchVars, aside, variant, seed, trace, first, params, consVars,
                   lsVars, X, I, res>>

\* lines 216-233: the generator is seeded if a seed is given; the trivial
\* solution and the first sample of the log
GraspStart ==
    /\ pc = "start"
    /\ rng' = IF seed # None THEN Seeded(seed[1]) ELSE rng
    /\ ReadClock
    /\ CountDecode
    /\ best_y' = AllOnes(inst.T)
    /\ best_cost' = decode_solution(AllOnes(inst.T), inst).cost
    /\ log' = << <<now' + 1, best_cost'>> >>
    /\ it' = 0
    /\ pc' = "iter"
    /\ refs' = New(New(refs, "trivial"), "best")
    /\ UNCHANGED <<batchVars, aside, variant, seed, trace, first, params, consVars,
                   lsVars, X, I, res>>

\* lines 235-238: the next iteration, and the deadline check
IterCheck ==
    /\ pc = "iter"
    /\ \/ /\ it >= max_iter
          /\ pc' = "final"
          /\ UNCHANGED <<now, it, consVars, refs>>
       \/ /\ it < max_iter
          /\ Observe
          /\ TimeUp(now')
          /\ it' = it + 1
          /\ pc' = "final"
          /\ UNCHANGED <<consVars, refs>>
       \/ /\ it < max_iter
          /\ Observe
          /\ ~ TimeUp(now')
          /\ it' = it + 1
          /\ t' = 1
          /\ yc' = [k \in 1..inst.T |-> 0]
          /\ refs' = New(refs, IF variant = "solvers" THEN "cons" ELSE "drv")
          /\ pc' = "construct"
    /\ UNCHANGED <<batchVars, rngVars, aside, variant, params, lsVars, best_y,
                   best_cost, log, X, I, res, late>>

\* mutant: every constructed vector goes to local_search
DecodeConstructedNoDiscard ==
    /\ pc = "constructed"
    /\ Observe
    /\ CountDecode
    /\ y' = yc
    /\ y_start' = yc
    /\ pc' = "ls_start"
    /\ ConsLocalsGone
    /\ UNCHANGED <<ext, params, ls_best_cost, improved, ls_t, drvVars, res>>

\* lines 245-250: the constructed vector is decoded; an infeasible one is
\* thrown away, a copy of a feasible one goes to local_search
DecodeConstructed ==
    /\ pc = "constructed"
    /\ Observe
    /\ CountDecode
    /\ LET cost_init == decode_solution(yc, inst).cost
       IN  \/ /\ Ge(cost_init, HalfBIGM)
              /\ pc' = "iter"
              /\ UNCHANGED <<y, y_start, refs>>
           \/ /\ ~ Ge(cost_init, HalfBIGM)
              /\ y' = yc
              /\ y_start' = yc
              /\ refs' = IF variant = "solvers" THEN New(refs, "ls")
                         ELSE Bind(refs, "ls", refs.drv)
              /\ pc' = "ls_start"
    /\ ConsLocalsGone
    /\ UNCHANGED <<batchVars, rngVars, aside, variant, params, ls_best_cost,
                   improved, ls_t, drvVars, res>>

\* y, cost = local_search(...): the driver's y is the list the call worked on
Returned(r) == Bind(Bind(r, "drv", r.ls), "ls", 0)

\* mutant: best_y = y, without the slice
CompareNoCopy ==
    /\ pc = "ls_return"
    /\ \/ /\ Lt(ls_best_cost, best_cost)
          /\ ReadClock
          /\ best_cost' = ls_best_cost
          /\ best_y' = y
          /\ refs' = Bind(Returned(refs), "best", refs.ls)
          /\ log' = Append(log, <<now', ls_best_cost>>)
       \/ /\ ~ Lt(ls_best_cost, best_cost)
          /\ refs' = Returned(refs)
          /\ UNCHANGED <<now, best_cost, best_y, log>>
    /\ pc' = "iter"
    /\ LSLocalsGone
    /\ UNCHANGED <<batchVars, rngVars, aside, variant, params, consVars, it, X, I,
                   res, late>>

\* mutant: the result of local_search replaces the best whatever its cost
CompareAlways ==
    /\ pc = "ls_return"
    /\ ReadClock
    /\ best_cost' = ls_best_cost
    /\ best_y' = y
    /\ log' = Append(log, <<now', ls_best_cost>>)
    /\ pc' = "iter"
    /\ LSLocalsGone
    /\ UNCHANGED <<ext, params, consVars, it, X, I, res, late>>

\* mutant: a better cost replaces the best and is not logged
CompareNoLog ==
    /\ pc = "ls_return"
    /\ \/ /\ Lt(ls_best_cost, best_cost)
          /\ ReadClock
          /\ best_cost' = ls_best_cost
          /\ best_y' = y
          /\ UNCHANGED log
       \/ /\ ~ Lt(ls_best_cost, best_cost)
          /\ UNCHANGED <<now, best_cost, best_y, log>>
    /\ pc' = "iter"
    /\ LSLocalsGone
    /\ UNCHANGED <<ext, params, consVars, it, X, I, res, late>>

\* lines 254-260: a strictly better cost replaces the best and is logged
Compare ==
    /\ pc = "ls_return"
    /\ \/ /\ Lt(ls_best_cost, best_cost)
          /\ ReadClock
          /\ best_cost' = ls_best_cost
          /\ best_y' = y
          /\ refs' = New(Returned(refs), "best")
          /\ log' = Append(log, <<now', ls_best_cost>>)
       \/ /\ ~ Lt(ls_best_cost, best_cost)
          /\ refs' = Returned(refs)
          /\ UNCHANGED <<now, best_cost, best_y, log>>
    /\ pc' = "iter"
    /\ LSLocalsGone
    /\ UNCHANGED <<batchVars, rngVars, aside, variant, params, consVars, it, X, I,
                   res, late>>

\* mutant: the plan of the all-ones vector
FinishAllOnes ==
    /\ pc = "final"
    /\ LET r == decode_solution(AllOnes(inst.T), inst)
       IN  X' = r.X /\ I' = r.I
    /\ pc' = "done"
    /\ UNCHANGED <<ext, params, now, consVars, lsVars, it, best_y, best_cost, log,
                   res, late>>

\* lines 262-265: the plan of best_y
Finish ==
    /\ pc = "final"
    /\ LET r == decode_solution(best_y, inst)
       IN  X' = r.X /\ I' = r.I
    /\ pc' = "done"
    /\ UNCHANGED <<ext, params, now, consVars, lsVars, it, best_y, best_cost, log,
                   res, late>>

Init ==
    /\ inst \in RunInstances
    /\ max_iter = MaxIter
    /\ alpha = DefaultAlpha
    /\ L_max = Min2(DefaultLmax, inst.T)
    /\ time_limit \in TimeLimits
    /\ now = 0 /\ late = 0
    /\ pc = "start"
    /\ y = << >> /\ res = NoResult
    /\ IdleCons /\ IdleLS /\ IdleDrv /\ IdleExt

Next ==
    \/ GraspStart \/ IterCheck \/ ConstructStep \/ DecodeConstructed
    \/ LSStart \/ LSWhile \/ LSFor \/ LSFlip
    \/ Compare \/ Finish

Spec == Init /\ [][Next]_vars

(***************************************************************************)
(* grasp of either file, with the list objects its names are bound to.     *)
(* The benchmark variant (src/benchmark/grasp_csilsp.py, lines 241-256)    *)
(* binds the constructed list to y and hands that list itself to           *)
(* local_search; the solvers variant hands over a slice of y_construida.   *)
(***************************************************************************)
Variants == {"solvers", "benchmark"}

AliasInit ==
    /\ inst \in SmallRunInstances
    /\ max_iter = MaxIter
    /\ alpha = DefaultAlpha
    /\ L_max = Min2(DefaultLmax, inst.T)
    /\ time_limit \in {None, <<1>>}
    /\ variant \in Variants
    /\ refs = NewRefs
    /\ now = 0 /\ late = 0
    /\ pc = "start"
    /\ y = << >> /\ res = NoResult
    /\ IdleCons /\ IdleLS /\ IdleDrv /\ IdleBatch /\ IdleRng /\ IdleAside

SpecAlias == AliasInit /\ [][Next]_vars

(***************************************************************************)
(* grasp called twice with the same arguments in one process.  The second  *)
(* call starts where the first left the generator: only random.seed moves  *)
(* it to a known state.  The histories keep the lots drawn and what the    *)
(* first call returned.                                                    *)
(***************************************************************************)
Seeds == {None, <<1>>, <<2>>}

\* no deadline check of the call can have fired: there is no limit, or the
\* clock has not reached it
Quiet == time_limit = None \/ now < time_limit[1]

\* the instances of one and two periods, where equal unit costs leave a
\* real choice, and the two scenarios
RerunInstances ==
    { in \in SmallRunInstances : in.T <= 2 } \cup {ScenarioA, ScenarioB}

RerunInit ==
    /\ inst \in RerunInstances
    /\ max_iter = MaxIter
    /\ alpha = DefaultAlpha
    /\ L_max = Min2(DefaultLmax, inst.T)
    /\ time_limit \in {None, <<1>>}
    /\ seed \in Seeds
    /\ rng = Unseeded /\ trace = NewTrace /\ first = None
    /\ now = 0 /\ late = 0
    /\ pc = "start"
    /\ y = << >> /\ res = NoResult
    /\ IdleCons /\ IdleLS /\ IdleDrv /\ IdleBatch /\ IdleAside /\ IdleHeap

\* the first call has returned; the second starts with the same arguments
Rerun ==
    /\ pc = "done"
    /\ first = None
    /\ first' = << [best_y |-> best_y, best_cost |-> best_cost,
                    lots |-> trace.lots, quiet |-> Quiet] >>
    /\ trace' = NewTrace
    /\ pc' = "start"
    /\ now' = 0 /\ late' = 0
    /\ it' = 0 /\ best_y' = << >> /\ best_cost' = Zero /\ log' = << >>
    /\ X' = None /\ I' = None
    /\ UNCHANGED <<params, consVars, lsVars, res, batchVars, aside, heapVars, seed, rng>>

RerunNext == Next \/ Rerun

SpecRerun == RerunInit /\ [][RerunNext]_vars

(***************************************************************************)
(* run_grasp_on_all_instances (lines 300-408): the walk over the sorted    *)
(* .txt files, one grasp call per file, a summary row and a convergence    *)
(* log per file, the summary at the end.  A file is well-formed ("ok",     *)
(* with its instance), or load_instance raises on it: "malformed" (the     *)
(* assert of line 33, or float() on a bad field) or "unreadable" (open     *)
(* fails).  Saving the log of a file can fail in os.makedirs (line 382) or *)
(* in open/write (lines 388-391).  An exception that nothing catches ends  *)
(* the runner: bpc = "crashed".                                            *)
(***************************************************************************)
MaxFiles == 2

OkFile(in, logio) == [kind |-> "ok", inst |-> in, log |-> logio]
FileKinds ==
    { OkFile(in, logio) : in \in {ScenarioA, ScenarioB},
                          logio \in {"ok", "open_fails", "mkdir_fails"} }
    \cup { [kind |-> "malformed"], [kind |-> "unreadable"] }

\* no instance loaded yet
NoInstance == UniformInst(0, << >>, << >>, SmallSetup, 1, 1)

\* the variables of a grasp call that is not running
GraspIdle ==
    /\ pc' = "idle" /\ now' = 0 /\ late' = 0 /\ res' = NoResult
    /\ t' = 1 /\ yc' = << >>
    /\ LSLocalsGone
    /\ it' = 0 /\ best_y' = << >> /\ best_cost' = Zero /\ log' = << >>
    /\ X' = None /\ I' = None

\* lines 340-356: the next file is loaded and grasp called on its instance;
\* load_instance is not inside any try.  The seed handed to grasp is a draw
\* of the runner's generator (line 353): the lots drawn are any the RCLs
\* allow, as with a generator in an unknown state.
BatchLoad ==
    /\ bpc = "walk"
    /\ fi <= Len(files)
    /\ \/ /\ files[fi].kind = "ok"
          /\ inst' = files[fi].inst
          /\ L_max' = Min2(DefaultLmax, files[fi].inst.T)
          /\ pc' = "start"
          /\ bpc' = "solve"
       \/ /\ files[fi].kind # "ok"
          /\ bpc' = "crashed"
          /\ UNCHANGED <<inst, L_max, pc>>
    /\ UNCHANGED <<max_iter, alpha, time_limit, now, consVars, lsVars, drvVars,
                   res, late, files, fi, rows, saved, reported, summary, rngVars, aside,
                   heapVars>>

\* lines 357-394: grasp has returned; the row is appended, the log saved.
\* Only open/write of the log is inside a try (lines 387-393).
BatchRow ==
    /\ bpc = "solve"
    /\ pc = "done"
    /\ rows' = Append(rows, [arquivo |-> fi, T |-> inst.T,
                             custo_grasp |-> best_cost,
                             factivel_grasp |-> IF Lt(best_cost, HalfBIGM)
                                                THEN 1 ELSE 0])
    /\ \/ /\ files[fi].log = "ok"
          /\ saved' = saved \cup {fi}
          /\ fi' = fi + 1
          /\ bpc' = "walk"
          /\ UNCHANGED reported
       \/ /\ files[fi].log = "open_fails"
          /\ reported' = reported \cup {fi}
          /\ fi' = fi + 1
          /\ bpc' = "walk"
          /\ UNCHANGED saved
       \/ /\ files[fi].log = "mkdir_fails"
          /\ bpc' = "crashed"
          /\ UNCHANGED <<fi, saved, reported>>
    /\ GraspIdle
    /\ UNCHANGED <<params, files, summary, rngVars, aside, heapVars>>

\* lines 396-408: the summary, if there is a row
BatchSummary ==
    /\ bpc = "walk"
    /\ fi > Len(files)
    /\ summary' = IF rows # << >> THEN rows ELSE None
    /\ bpc' = "end"
    /\ UNCHANGED <<params, now, pc, consVars, lsVars, drvVars, res, late,
                   files, fi, rows, saved, reported, rngVars, aside, heapVars>>

BatchInit ==
    /\ files \in UNION { [1..n -> FileKinds] : n \in 0..MaxFiles }
    /\ fi = 1 /\ rows = << >> /\ saved = {} /\ reported = {} /\ summary = None
    /\ bpc = "walk"
    /\ inst = NoInstance
    /\ max_iter = MaxIter
    /\ alpha = DefaultAlpha
    /\ L_max = DefaultLmax
    /\ time_limit \in {None, <<1>>}
    /\ pc = "idle" /\ now = 0 /\ late = 0
    /\ y = << >> /\ res = NoResult
    /\ IdleCons /\ IdleLS /\ IdleDrv /\ IdleRng /\ IdleAside /\ IdleHeap

BatchNext == BatchLoad \/ BatchRow \/ BatchSummary \/ Next

SpecBatch == BatchInit /\ [][BatchNext]_vars

(***************************************************************************)
(* The penalized score in double precision (lines 70-71 and 78-79).  A     *)
(* violation is counted in units of 1e-9, so that violations a few 1e-8    *)
(* apart can be told apart; the tolerance 1e-6 is 1000 units.  bigM = 1e15 *)
(* lies between 2^49 and 2^50, where consecutive doubles are 2^-3 apart:   *)
(* bigM + v * penalty is bigM plus v * penalty rounded to the nearest      *)
(* eighth.  v * penalty is n / 1000 for a violation of n units, that is    *)
(* n / 125 eighths; 125 is odd, so no n is half way between two doubles.   *)
(* The score is kept as its distance from bigM in eighths.                 *)
(***************************************************************************)
TolUnits == 1000
GridUnits == 125
StepUnits == 50
MaxSteps == 4

ViolBases == {TolUnits, 2 * TolUnits, 10^9}
ViolVals == { b + k * StepUnits : b \in ViolBases, k \in 0..MaxSteps }

\* R > 1e-6, and inv < -1e-6 for the shortfall abs(inv)
AboveTolUnits(n) == n > TolUnits

\* mutant: doubles half a unit apart, as they are from 2^51 on
PenaltyScoreCoarse(n) == 4 * ((n + 2 * GridUnits) \div (4 * GridUnits))
\* bigM + v * penalty, less bigM, in eighths
PenaltyScore(n) == (n + GridUnits \div 2) \div GridUnits

NoPenalty == 0 - 1

PenInit ==
    /\ viol \in {"unmet", "short"} \X ViolVals \X ViolVals
    /\ score = None
    /\ pc = "penalty"
    /\ inst = NoInstance /\ y = << >> /\ res = NoResult
    /\ max_iter = 0 /\ alpha = DefaultAlpha /\ L_max = 1 /\ time_limit = None
    /\ now = 0 /\ late = 0
    /\ IdleCons /\ IdleLS /\ IdleDrv /\ IdleBatch /\ IdleRng /\ IdleHeap

\* the two decodes reach the test of their violation and return the
\* penalized score if it is above the tolerance
Penalize ==
    /\ pc = "penalty"
    /\ score' = << IF AboveTolUnits(viol[2]) THEN PenaltyScore(viol[2]) ELSE NoPenalty,
                   IF AboveTolUnits(viol[3]) THEN PenaltyScore(viol[3]) ELSE NoPenalty >>
    /\ pc' = "penalized"
    /\ UNCHANGED <<params, now, consVars, lsVars, drvVars, res, late,
                   batchVars, rngVars, heapVars, viol>>

PenNext == Penalize

SpecPenalty == PenInit /\ [][PenNext]_vars

(***************************************************************************)
(* decode_solution and the first statements of an iteration of grasp in    *)
(* double precision, for data that is not made of whole numbers.           *)
(* load_instance reads d and C with float(): any double may come in.       *)
(* A double is kept here as [w, f], the number w + f * 2^-27, with f far   *)
(* below 2^27 in absolute value.  A double has 53 bits: between 2^e and    *)
(* 2^(e+1) consecutive doubles are 2^(e-52) apart, that is 2^(e-25) units  *)
(* of 2^-27.  Below 2^26 every number [w, f] is a double; from 2^26 on,    *)
(* only those whose f is a multiple of 2^(e-25).  An addition or a         *)
(* subtraction gives the double nearest to the exact result, the one with  *)
(* the even last bit if two are as near.                                   *)
(* 1e-6 is 134.2177... units: a number of the form [0, f] is above 1e-6    *)
(* exactly if f > 134.                                                     *)
(***************************************************************************)
FracBits == 27
TolFloor == 134

Dbl(w, f) == [w |-> w, f |-> f]
DZero == Dbl(0, 0)
Abs(n) == IF n < 0 THEN 0 - n ELSE n

RECURSIVE Log2(_)
Log2(n) == IF n < 2 THEN 0 ELSE 1 + Log2(n \div 2)
RECURSIVE TwoTo(_)
TwoTo(k) == IF k = 0 THEN 1 ELSE 2 * TwoTo(k - 1)

\* the sign of w + f * 2^-27
DSign(a) ==
    IF a.w # 0 THEN (IF a.w > 0 THEN 1 ELSE 0 - 1)
    ELSE IF a.f > 0 THEN 1 ELSE IF a.f < 0 THEN 0 - 1 ELSE 0

\* e with 2^e <= |a| < 2^(e+1), for a.w # 0
Exponent(a) ==
    LET m == Abs(a.w)
        e == Log2(m)
    IN  IF m = TwoTo(e) /\ a.f * DSign(a) < 0 THEN e - 1 ELSE e

\* the distance between consecutive doubles around a, in units
Grid(a) ==
    IF a.w = 0 THEN 1
    ELSE LET e == Exponent(a)
         IN  IF e >= FracBits - 1 THEN TwoTo(e - (FracBits - 2)) ELSE 1

\* the multiple of g nearest to f, the even one of two
NearestMultiple(f, g) ==
    LET q == f \div g
        r == f % g
    IN  IF 2 * r < g THEN q * g
        ELSE IF 2 * r > g THEN (q + 1) * g
        ELSE IF q % 2 = 0 THEN q * g ELSE (q + 1) * g

Round(a) == Dbl(a.w, NearestMultiple(a.f, Grid(a)))
DAdd(a, b) == Round(Dbl(a.w + b.w, a.f + b.f))
DSub(a, b) == Round(Dbl(a.w - b.w, a.f - b.f))
DNeg(a) == Dbl(0 - a.w, 0 - a.f)
\* n * a for a whole number n
DTimes(n, a) == Round(Dbl(n * a.w, n * a.f))
DLt(a, b) == DSign(Dbl(a.w - b.w, a.f - b.f)) < 0
\* min(a, b) of the language: b if b < a, else a
DMin(a, b) == IF DLt(b, a) THEN b ELSE a

\* r > 1e-6, and r < -1e-6
DAboveTol(r) == r.w > 0 \/ (r.w = 0 /\ r.f > TolFloor)
DBelowNegTol(r) == DAboveTol(DNeg(r))

\* cap + 1e-6 < dem: cap + 1e-6 is cap plus the multiple of Grid(cap)
\* nearest to 134.2177 units (finer than a unit where the grid is)
TolOnGrid(g) ==
    LET q == TolFloor \div g
        r == TolFloor % g
    IN  IF g > 1 /\ 2 * r >= g THEN (q + 1) * g ELSE q * g
CapacityShort(cap, dem) ==
    LET diff == Dbl(dem.w - cap.w, dem.f - cap.f)
    IN  diff.w > 0 \/ (diff.w = 0 /\ diff.f > TolOnGrid(Grid(cap)))

\* the values of d and C: nothing, 134 units (just below 1e-6), one,
\* and 2^27 + 1, around which doubles are 4 units apart
Tiny == Dbl(0, TolFloor)
Big == Dbl(TwoTo(FracBits) + 1, 0)
DemValsD == {DZero, Tiny, Big}
CapValsD == {DZero, Dbl(1, 0), Big}

\* s = 5, p = 1, h = 1 in every period
InstancesD ==
    UNION { { [T |-> T, d |-> d, C |-> C, s |-> [k \in 1..T |-> 5],
               p |-> [k \in 1..T |-> 1], h |-> [k \in 1..T |-> 1]] :
                d \in [1..T -> DemValsD], C \in [1..T -> CapValsD] } : T \in 1..MaxT }

\* mutant: a period produces whatever is asked of it, capacity or not
RECURSIVE BackwardPassDNoCap(_, _, _, _, _, _)
BackwardPassDNoCap(k, R, Xv, yv, d, C) ==
    IF k = 0 THEN [R |-> R, X |-> Xv]
    ELSE LET R1 == DAdd(R, d[k])
         IN  IF yv[k] = 1
             THEN BackwardPassDNoCap(k - 1, DSub(R1, R1), [Xv EXCEPT ![k] = R1], yv, d, C)
             ELSE BackwardPassDNoCap(k - 1, R1, Xv, yv, d, C)

\* lines 61-67
RECURSIVE BackwardPassD(_, _, _, _, _, _)
BackwardPassD(k, R, Xv, yv, d, C) ==
    IF k = 0 THEN [R |-> R, X |-> Xv]
    ELSE LET R1 == DAdd(R, d[k])
         IN  IF yv[k] = 1
             THEN LET x_t == DMin(C[k], R1)
                  IN  BackwardPassD(k - 1, DSub(R1, x_t), [Xv EXCEPT ![k] = x_t], yv, d, C)
             ELSE BackwardPassD(k - 1, R1, Xv, yv, d, C)

\* mutant: the inventory is tested before the production of the period
\* is added to it
RECURSIVE ForwardPassDLate(_, _, _, _, _, _)
ForwardPassDLate(k, inv, Iv, Xv, d, T) ==
    IF k > T THEN [short |-> DZero, I |-> Iv]
    ELSE LET inv0 == DSub(inv, d[k])
             inv1 == DAdd(inv0, Xv[k])
         IN  IF DBelowNegTol(inv0) THEN [short |-> DNeg(inv0), I |-> Iv]
             ELSE ForwardPassDLate(k + 1, inv1, [Iv EXCEPT ![k] = inv1], Xv, d, T)

\* lines 74-81: inv = inv + X[t] - d[t] is two operations; short is
\* abs(inv) of the period that is short, 0 if none is
RECURSIVE ForwardPassD(_, _, _, _, _, _)
ForwardPassD(k, inv, Iv, Xv, d, T) ==
    IF k > T THEN [short |-> DZero, I |-> Iv]
    ELSE LET inv1 == DSub(DAdd(inv, Xv[k]), d[k])
         IN  IF DBelowNegTol(inv1) THEN [short |-> DNeg(inv1), I |-> Iv]
             ELSE ForwardPassD(k + 1, inv1, [Iv EXCEPT ![k] = inv1], Xv, d, T)

\* lines 84-86: cost += s[t]*y[t] + p[t]*X[t] + h[t]*I[t]
RECURSIVE CostSumD(_, _, _, _, _)
CostSumD(k, yv, Xv, Iv, in) ==
    IF k = 0 THEN DZero
    ELSE DAdd(CostSumD(k - 1, yv, Xv, Iv, in),
              DAdd(DAdd(Dbl(in.s[k] * yv[k], 0), DTimes(in.p[k], Xv[k])),
                   DTimes(in.h[k], Iv[k])))

\* decode_solution.  A penalized score bigM + viol * penalty is kept as
\* its viol (what PenaltyScore makes of it is another matter); it is
\* 1e15 at least, and the cost of a plan is below 2^31.
decode_double(yv, in) ==
    LET T  == in.T
        bw == BackwardPassD(T, DZero, [k \in 1..T |-> DZero], yv, in.d, in.C)
    IN  IF DAboveTol(bw.R)
        THEN [X |-> None, I |-> None, cost |-> None, viol |-> bw.R, branch |-> "unmet"]
        ELSE LET fw == ForwardPassD(1, DZero, [k \in 1..T |-> DZero], bw.X, in.d, T)
             IN  IF fw.short # DZero
                 THEN [X |-> None, I |-> None, cost |-> None, viol |-> fw.short,
                       branch |-> "short"]
                 ELSE [X |-> bw.X, I |-> fw.I, cost |-> CostSumD(T, yv, bw.X, fw.I, in),
                       viol |-> DZero, branch |-> "ok"]

\* cost >= bigM / 2 (line 246)
Discarded(r) == r.branch # "ok"

\* the lots of length 1..1 that end inside the horizon and pass the
\* filter; dem = sum(d[t:t+1]) is d[t] itself
CandidateLengthsD(in, t0) ==
    { L \in 1..1 : /\ t0 + L - 1 <= in.T
                   /\ ~ CapacityShort(in.C[t0], in.d[t0]) }

\* a call of decode_solution on any instance and any setup vector, or an
\* iteration of grasp with L_max = 1 up to its test of the construction
DblInit ==
    /\ inst \in InstancesD
    /\ \/ pc = "d_decode" /\ y \in Vectors(inst.T) /\ yc = << >>
       \/ pc = "d_construct" /\ y = << >> /\ yc = [k \in 1..inst.T |-> 0]
    /\ t = 1
    /\ res = NoResult
    /\ max_iter = 0 /\ alpha = DefaultAlpha /\ L_max = 1 /\ time_limit = None
    /\ now = 0 /\ late = 0
    /\ IdleLS /\ IdleDrv /\ IdleBatch /\ IdleAside /\ IdleHeap
    /\ seed = None /\ rng = Unseeded /\ trace = NewTrace /\ first = None

DblDecodeCall ==
    /\ pc = "d_decode"
    /\ res' = decode_double(y, inst)
    /\ pc' = "d_decoded"
    /\ UNCHANGED <<ext, params, now, consVars, lsVars, drvVars, late>>

\* mutant: the chosen lot gets no setup
DblConstructStepNoSetup ==
    /\ pc = "d_construct"
    /\ t <= inst.T
    /\ LET cands == CandidateLengthsD(inst, t)
       IN  \/ /\ cands = {}
              /\ yc' = [yc EXCEPT ![t] = 1]
              /\ t' = t + 1
              /\ UNCHANGED <<rng, trace>>
           \/ /\ cands # {}
              /\ \E L_chosen \in RandomChoice(rng, cands) :
                    /\ yc' = yc
                    /\ t' = t + L_chosen
                    /\ trace' = Record(trace, L_chosen)
              /\ rng' = Advance(rng)
    /\ UNCHANGED <<batchVars, aside, heapVars, seed, first, params, now, pc,
                   lsVars, drvVars, res, late>>

\* one turn of the while loop of greedy_randomized_construction with
\* L_max = 1 (lines 107-153).  A lone candidate has c_min = c_max = its
\* avg_cost, which is <= thresh whatever it is: the RCL is the
\* candidates.
DblConstructStep ==
    /\ pc = "d_construct"
    /\ t <= inst.T
    /\ LET cands == CandidateLengthsD(inst, t)
       IN  \/ /\ cands = {}
              /\ yc' = [yc EXCEPT ![t] = 1]
              /\ t' = t + 1
              /\ UNCHANGED <<rng, trace>>
           \/ /\ cands # {}
              /\ \E L_chosen \in RandomChoice(rng, cands) :
                    /\ yc' = [yc EXCEPT ![t] = 1]
                    /\ t' = t + L_chosen
                    /\ trace' = Record(trace, L_chosen)
              /\ rng' = Advance(rng)
    /\ UNCHANGED <<batchVars, aside, heapVars, seed, first, params, now, pc,
                   lsVars, drvVars, res, late>>

\* grasp, lines 240-247: the construction has returned, it is decoded
\* and discarded if its cost is bigM / 2 or more
DblDecodeConstructed ==
    /\ pc = "d_construct"
    /\ t > inst.T
    /\ y' = yc
    /\ res' = decode_double(yc, inst)
    /\ pc' = IF Discarded(res') THEN "d_discarded" ELSE "d_kept"
    /\ ConsLocalsGone
    /\ UNCHANGED <<ext, params, now, y_start, ls_best_cost, improved, ls_t,
                   drvVars, late>>

DblNext == DblDecodeCall \/ DblConstructStep \/ DblDecodeConstructed

SpecDouble == DblInit /\ [][DblNext]_vars

\* the constructor on whole-number instances with any L_max, and the
\* iteration in double precision with L_max = 1
LotsInit == ConsInit \/ (DblInit /\ pc = "d_construct")
LotsNext == ConsNext \/ DblConstructStep \/ DblDecodeConstructed
SpecLots == LotsInit /\ [][LotsNext]_vars

(***************************************************************************)
(* Quantities the properties speak of.                                     *)
(***************************************************************************)
TotalDemand(in) == SumTo(in.d, in.T)
TotalCapacity(in) == SumTo(in.C, in.T)
\* the capacity of the first k periods covers their demand, for every k
PrefixCovered(in) == \A k \in 1..in.T : SumTo(in.C, k) >= SumTo(in.d, k)

\* an upper bound of every feasible cost: a setup in every period, every
\* period at capacity, the whole demand held in every period
RECURSIVE UpperCostTo(_, _)
UpperCostTo(in, k) ==
    IF k = 0 THEN Zero
    ELSE Add(UpperCostTo(in, k - 1),
             Add(in.s[k], Int2Num(in.p[k] * in.C[k] + in.h[k] * TotalDemand(in))))
UpperCost(in) == UpperCostTo(in, in.T)

Feasible(r) == r.X # None /\ r.I # None
Same(a, b) == Sign(Sub(a, b)) = 0
AllOnesCost == decode_solution(AllOnes(inst.T), inst).cost

(***************************************************************************)
(* C1 as stated: whenever total capacity covers total demand, the all-ones *)
(* vector decodes to a plan with a cost below BIGM.  It fails: capacity    *)
(* that comes after the demand cannot serve it (d = <<1,0>>, C = <<0,1>>), *)
(* and a feasible cost need not be below BIGM (C2).                        *)
(***************************************************************************)
C1_TotalCapacitySuffices ==
    (/\ pc = "decoded"
     /\ y = AllOnes(inst.T)
     /\ TotalCapacity(inst) >= TotalDemand(inst))
    => (Feasible(res) /\ Lt(res.cost, BIGM))

(***************************************************************************)
(* C1 amended: whenever the capacity of every prefix of the horizon covers *)
(* the demand of that prefix, the all-ones vector decodes to a plan, with  *)
(* the exact cost and no penalty; the cost is below BIGM when the          *)
(* instance's cost bound is.                                               *)
(***************************************************************************)
C1_AllOnesFeasible ==
    (/\ pc = "decoded"
     /\ y = AllOnes(inst.T)
     /\ PrefixCovered(inst))
    => /\ Feasible(res)
       /\ res.branch = "ok"
       /\ Lt(UpperCost(inst), BIGM) => Lt(res.cost, BIGM)

\* all-ones decoded to a plan in which a period short of capacity is
\* served by an earlier one
C1_Witness ==
    /\ pc = "decoded"
    /\ y = AllOnes(inst.T)
    /\ PrefixCovered(inst)
    /\ Lt(UpperCost(inst), BIGM)
    /\ \E k \in 1..inst.T : inst.C[k] < inst.d[k]
    /\ Feasible(res)

(***************************************************************************)
(* C2 as stated: for every instance, every feasible cost is below BIGM,    *)
(* every infeasible score above it, and so every feasible score is below   *)
(* every infeasible one.  It fails for costs of the size of BIGM.          *)
(***************************************************************************)
C2_Separation ==
    pc = "decoded" =>
      /\ Feasible(res) => Lt(res.cost, BIGM)
      /\ ~ Feasible(res) => Lt(BIGM, res.cost)
      /\ Feasible(res) =>
           \A y2 \in Vectors(inst.T) :
              LET r2 == decode_solution(y2, inst)
              IN  ~ Feasible(r2) => Lt(res.cost, r2.cost)

(***************************************************************************)
(* C2 amended: for every instance whose cost bound (sum of s[t] +          *)
(* p[t]*C[t] + h[t]*sum(d)) is below BIGM, every feasible cost is below    *)
(* BIGM and below every infeasible score; for every instance, every        *)
(* infeasible score is above BIGM.                                         *)
(***************************************************************************)
C2_SeparationBounded ==
    pc = "decoded" =>
      /\ ~ Feasible(res) => Lt(BIGM, res.cost)
      /\ (Feasible(res) /\ Lt(UpperCost(inst), BIGM)) =>
           /\ Lt(res.cost, BIGM)
           /\ \A y2 \in Vectors(inst.T) :
                 LET r2 == decode_solution(y2, inst)
                 IN  ~ Feasible(r2) => Lt(res.cost, r2.cost)

\* a feasible vector of an instance that has an infeasible one too
C2_Witness ==
    /\ pc = "decoded"
    /\ Feasible(res)
    /\ Lt(UpperCost(inst), BIGM)
    /\ \E y2 \in Vectors(inst.T) : ~ Feasible(decode_solution(y2, inst))

(***************************************************************************)
(* C3: for an instance whose total demand exceeds its total capacity,      *)
(* every setup vector decodes to no plan and a score of at least BIGM, and *)
(* grasp terminates with best_cost >= BIGM / 2 (feasibility flag false)    *)
(* and no plan.  Termination: until grasp has returned a step is always    *)
(* possible, and every step lowers the non-negative Rank.  (The instance   *)
(* never changes: its vectors are decoded once, at the start.)             *)
(***************************************************************************)
Infeasible(in) == TotalDemand(in) > TotalCapacity(in)

\* a bound on the steps left of a run that never enters local_search
Rank ==
    LET W == inst.T + 3
        left == 2 + W * (max_iter - it)
    IN  CASE pc = "done" -> 0
          [] pc = "final" -> 1
          [] pc = "iter" -> left
          [] pc = "constructed" -> left + 1
          [] pc = "construct" -> left + 1 + (inst.T + 1 - t)
          [] pc = "start" -> 2 + W * (max_iter + 1)
          [] OTHER -> 2 + W * (max_iter + 2)

C4_LocalSearchNeverWorse ==
    pc \in {"ls_while", "ls_for", "ls_flip", "ls_return"} =>
      /\ Le(ls_best_cost, decode_solution(y_start, inst).cost)
      /\ Same(ls_best_cost, decode_solution(y, inst).cost)

\* the deadline has cut a search short that had improved its vector
C4_Witness ==
    /\ pc = "ls_return"
    /\ improved
    /\ TimeUp(now)
    /\ y # y_start
    /\ Lt(ls_best_cost, decode_solution(y_start, inst).cost)

(***************************************************************************)
(* C5: once grasp has its initial best_cost, no step raises it, and the    *)
(* best_cost it returns is at most the decoded cost of the all-ones        *)
(* vector; on scenario A that cost is 45 and the returned one at most 45.  *)
(***************************************************************************)
C5_BestCostNonIncreasing ==
    /\ [][pc # "start" => Le(best_cost', best_cost)]_vars
    /\ [](pc = "done" => Le(best_cost, AllOnesCost))
    /\ [](inst = ScenarioA =>
            /\ Same(AllOnesCost, Int2Num(45))
            /\ pc = "done" => Le(best_cost, Int2Num(45)))

\* a run has returned a cost below that of the all-ones vector
C5_Witness ==
    /\ pc = "done"
    /\ it = max_iter
    /\ Lt(best_cost, AllOnesCost)

(***************************************************************************)
(* C6: the elapsed times of the convergence log are non-decreasing from    *)
(* each sample to the next, whatever the advance of the clock.  The first  *)
(* sample is elapsed + 1e-6 (one tick), the later ones the raw elapsed     *)
(* time: a sample taken before the clock has advanced by a tick is         *)
(* earlier than the first.                                                 *)
(***************************************************************************)
C6_LogTimesNonDecreasing ==
    \A i \in 1..(Len(log) - 1) : log[i][1] <= log[i + 1][1]

(***************************************************************************)
(* C7: the convergence log tracks best_cost.  Its first sample carries the *)
(* decoded cost of the all-ones vector, its last sample the current        *)
(* best_cost, its costs never increase, and a step appends a sample (the   *)
(* elapsed time and the new best_cost) exactly when it strictly lowers     *)
(* best_cost.                                                              *)
(***************************************************************************)
C7_LogTracksBestCost ==
    /\ [](pc # "start" =>
            /\ Len(log) >= 1
            /\ Same(log[1][2], AllOnesCost)
            /\ log[Len(log)][2] = best_cost
            /\ \A i \in 1..(Len(log) - 1) : Le(log[i + 1][2], log[i][2]))
    /\ [][pc # "start" =>
            /\ Lt(best_cost', best_cost) <=> Len(log') = Len(log) + 1
            /\ \/ log' = log
               \/ log' = Append(log, <<now', best_cost'>>)]_vars

\* an iteration has just lowered best_cost and appended a sample
C7_Witness ==
    /\ pc = "iter"
    /\ Len(log) >= 2
    /\ Lt(log[Len(log)][2], log[1][2])

(***************************************************************************)
(* What grasp returns: best_cost is the decoded score of best_y and        *)
(* (X, I) is the decoder's plan for best_y.                                *)
(***************************************************************************)
\* no feasible solution exists
NoPlanAtAll ==
    \A yv \in Vectors(inst.T) : ~ Feasible(decode_solution(yv, inst))

\* the one call of grasp that can raise: random.choice(RCL) needs a
\* non-empty RCL (line 151); the loop is entered with the cursor inside
\* the horizon
NeverFails ==
    pc = "construct" =>
       /\ t <= inst.T
       /\ LET cands == Candidates(inst, t, L_max)
          IN  cands # {} => RCL(cands, alpha) # {}

ReturnsDecoderResult ==
    LET r == decode_solution(best_y, inst)
    IN  /\ Same(best_cost, r.cost)
        /\ X = r.X
        /\ I = r.I

(***************************************************************************)
(* C8 as stated: grasp does not fail, whether a setup vector has a plan or *)
(* none has; best_cost is the decoded score of best_y and (X, I) its plan; *)
(* X and I are None exactly when best_cost >= BIGM / 2.  It fails for      *)
(* feasible costs of the size of BIGM: the plan is there and the flag is   *)
(* false.                                                                  *)
(***************************************************************************)
C8_NoneIffAboveHalfBIGM ==
    /\ NeverFails
    /\ pc = "done" =>
         /\ ReturnsDecoderResult
         /\ (X = None /\ I = None) <=> Ge(best_cost, HalfBIGM)

(***************************************************************************)
(* C8 amended: grasp does not fail, whether a setup vector has a plan or   *)
(* none has (the constructor always has a lot to choose); best_cost is the *)
(* decoded score                                                           *)
(* of best_y and (X, I) its plan; X and I are None exactly when best_y     *)
(* decodes to no plan, best_cost being above BIGM then, and, for an        *)
(* instance whose cost bound is below BIGM / 2, exactly when               *)
(* best_cost >= BIGM / 2.                                                  *)
(***************************************************************************)
C8_NoneIffNoPlan ==
    /\ NeverFails
    /\ pc = "done" =>
         /\ ReturnsDecoderResult
         /\ (X = None) <=> (I = None)
         /\ (X = None) <=> ~ Feasible(decode_solution(best_y, inst))
         /\ (X = None) => Lt(BIGM, best_cost)
         /\ Lt(UpperCost(inst), HalfBIGM) =>
              ((X = None) <=> Ge(best_cost, HalfBIGM))

\* grasp has returned without a plan, the flag false
C8_Witness ==
    /\ pc = "done"
    /\ NoPlanAtAll
    /\ it = max_iter
    /\ X = None /\ I = None
    /\ Lt(BIGM, best_cost)
    /\ Lt(UpperCost(inst), HalfBIGM)

(***************************************************************************)
(* C9: at every cursor position of the constructor with a surviving        *)
(* candidate, the RCL is a non-empty set of candidate lengths; with        *)
(* alpha = 0 every member has the minimal avg_cost (it is the single       *)
(* minimum when that is unique); with alpha = 1 the RCL is every           *)
(* candidate length that passed the capacity filter.                       *)
(***************************************************************************)
C9_RCLBounds ==
    (pc = "construct" /\ t <= inst.T /\ Candidates(inst, t, L_max) # {}) =>
       LET cands == Candidates(inst, t, L_max)
           rcl   == RCL(cands, alpha)
           cmin  == MinCand(cands)
       IN  /\ rcl # {}
           /\ rcl \subseteq CandidateLengths(inst, t, L_max)
           /\ alpha = <<0, 1>> =>
                /\ \A L \in rcl : EqAvg(Candidate(inst, t, L), cmin)
                /\ (\A c \in cands : EqAvg(c, cmin) => c = cmin) => rcl = {cmin.L}
           /\ alpha = <<1, 1>> => rcl = CandidateLengths(inst, t, L_max)

\* after a first lot, a cursor position with candidates of different
\* avg_cost
C9_Witness ==
    /\ pc = "construct"
    /\ alpha = <<0, 1>>
    /\ t > 1 /\ t <= inst.T
    /\ LET cands == Candidates(inst, t, L_max)
       IN  /\ Cardinality(cands) >= 2
           /\ ~ EqAvg(MinCand(cands), MaxCand(cands))
           /\ RCL(cands, alpha) # { c.L : c \in cands }

(***************************************************************************)
(* C10 as stated: at most one decode call of the search starts at or after *)
(* the deadline.  It fails: when the deadline passes during a              *)
(* construction, the decode of the constructed vector (line 245) and the   *)
(* initial decode of local_search (line 170) both follow, the next check   *)
(* being that of the first sweep (line 178).                               *)
(***************************************************************************)
C10_AtMostOneLateDecode == late <= 1

(***************************************************************************)
(* C10 amended: at most two decode calls of the search start at or after   *)
(* the deadline (the final decode of best_y, line 262, comes after the     *)
(* search).                                                                *)
(***************************************************************************)
C10_AtMostTwoLateDecodes == late <= 2

\* a run has returned after two late decode calls
C10_Witness ==
    /\ pc = "done"
    /\ time_limit # None
    /\ late = 2

(***************************************************************************)
(* C11: a file on which the runner fails does not keep the files after it  *)
(* from being solved nor the summary from being written: when the runner   *)
(* has ended, every well-formed file of the directory has its row and the  *)
(* summary written holds these rows.  It fails: load_instance (line 342)   *)
(* and os.makedirs (line 382) are outside the only try of the runner, so   *)
(* their exception ends the walk and the summary is never written.         *)
(***************************************************************************)
BatchEnded == bpc \in {"end", "crashed"}

C11_FailureDoesNotAbort ==
    BatchEnded =>
       /\ \A k \in 1..Len(files) :
             files[k].kind = "ok" => \E r \in 1..Len(rows) : rows[r].arquivo = k
       /\ rows # << >> => summary = rows

(***************************************************************************)
(* C12.  Two runs of grasp on the same instance with the same seed,        *)
(* max_iter, alpha and L_max, in which no deadline check fires, make the   *)
(* same sequence of random lot choices and return identical best_y and     *)
(* best_cost.  As stated this fails for seed = None, the default: line     *)
(* 216 seeds the generator only if a seed is given, and two such runs      *)
(* draw from wherever the generator is.                                    *)
(***************************************************************************)
BothReturned == pc = "done" /\ first # None
SameOutcome ==
    /\ first[1].lots = trace.lots
    /\ first[1].best_y = best_y
    /\ Same(first[1].best_cost, best_cost)

C12_SameSeedSameRun ==
    (BothReturned /\ first[1].quiet /\ Quiet) => SameOutcome

\* C12, amended: the same holds when the common seed is a number
C12_GivenSeedSameRun ==
    (BothReturned /\ seed # None /\ first[1].quiet /\ Quiet) => SameOutcome

\* two seeded runs under a time limit that is never reached, with two
\* iterations of lot choices each, that found better than the all-ones vector
C12_Witness ==
    /\ BothReturned /\ seed # None /\ first[1].quiet /\ Quiet
    /\ time_limit # None
    /\ Len(trace.lots) >= 2
    /\ best_y # AllOnes(inst.T)

(***************************************************************************)
(* C13.  For infeasible decodes the penalized score is strictly increasing *)
(* in the violation: unmet demands R1 < R2, both above the tolerance, give *)
(* bigM + R1 * penalty < bigM + R2 * penalty, and likewise two inventory   *)
(* shortfalls.  In double precision this fails for violations less than    *)
(* 1.25e-7 apart: their scores can be the same double.                     *)
(***************************************************************************)
BothPenalized ==
    /\ pc = "penalized"
    /\ AboveTolUnits(viol[2]) /\ AboveTolUnits(viol[3])
    /\ viol[2] < viol[3]

FlipCost(k) == decode_solution(Flip(y, k), inst).cost
NoBetterFlipBefore(n) == \A k \in 1..n : ~ Lt(FlipCost(k), ls_best_cost)

C14_FirstImprovement ==
    \* the flips before the sweep's position have been tried and failed
    /\ [](pc \in {"ls_for", "ls_flip"} => NoBetterFlipBefore(ls_t - 1))
    \* a flip is kept iff it is strictly better, and then the sweep ends
    /\ [][pc = "ls_flip" =>
            IF Lt(FlipCost(ls_t), ls_best_cost)
            THEN /\ y' = Flip(y, ls_t)
                 /\ ls_best_cost' = FlipCost(ls_t)
                 /\ pc' = "ls_while" /\ improved'
            ELSE /\ y' = y /\ ls_best_cost' = ls_best_cost
                 /\ ls_t' = ls_t + 1 /\ pc' = "ls_for"]_vars
    \* a sweep starts at the first period
    /\ [][pc = "ls_while" /\ pc' = "ls_for" => ls_t' = 1]_vars
    \* the vector returned without a deadline is a 1-flip local optimum
    /\ []((pc = "ls_return" /\ Quiet) =>
            /\ NoBetterFlipBefore(inst.T)
            /\ Same(ls_best_cost, decode_solution(y, inst).cost))

\* a search under a time limit never reached that kept a flip of a later
\* period after the flip of the first had failed, and returned
C14_Witness ==
    /\ pc = "ls_return" /\ Quiet /\ time_limit # None
    /\ y # y_start
    /\ y[1] = y_start[1]
    /\ NoBetterFlipBefore(inst.T)

(***************************************************************************)
(* C15.  local_search with no time limit terminates for every instance and *)
(* every starting y: every accepted flip strictly decreases best_cost, so  *)
(* no setup vector is visited twice and a sweep without an improving flip  *)
(* is reached.  best_cost is the decoded cost of the current vector, so    *)
(* the vectors the search moves through have strictly decreasing costs;    *)
(* WorseOrEqual counts the vectors it can still move to.                   *)
(***************************************************************************)
Better(c) == { v \in Vectors(inst.T) : Lt(decode_solution(v, inst).cost, c) }

C15_TerminatesWithoutLimit ==
    \* a kept flip strictly lowers best_cost, to the cost of the new vector
    /\ [][y' # y => /\ Lt(ls_best_cost', ls_best_cost)
                     /\ Same(ls_best_cost', decode_solution(y', inst).cost)
                     /\ Cardinality(Better(ls_best_cost'))
                           < Cardinality(Better(ls_best_cost))]_vars
    \* and the search returns
    /\ <>(pc = "ls_return")

\* a search without limit that has returned after two kept flips
C15_Witness ==
    /\ pc = "ls_return" /\ time_limit = None
    /\ Cardinality({k \in 1..inst.T : y[k] # y_start[k]}) >= 2

(***************************************************************************)
(* C16.  In every grasp iteration local_search is invoked only if the      *)
(* constructed vector's decoded score is below BIGM / 2; a construction    *)
(* with a score of BIGM / 2 or more is discarded with best_y, best_cost    *)
(* and the convergence log unchanged.  So every candidate compared with    *)
(* best_cost after local search is feasible: it has a plan and a cost      *)
(* below BIGM / 2.                                                         *)
(***************************************************************************)
InLocalSearch == pc \in {"ls_start", "ls_while", "ls_for", "ls_flip", "ls_return"}

C16_InfeasibleConstructionDiscarded ==
    /\ [](InLocalSearch => Lt(decode_solution(y_start, inst).cost, HalfBIGM))
    /\ [][(pc = "constructed" /\ Ge(decode_solution(yc, inst).cost, HalfBIGM)) =>
             /\ pc' = "iter"
             /\ UNCHANGED <<best_y, best_cost, log>>]_vars
    /\ [](pc = "ls_return" =>
             /\ Lt(ls_best_cost, HalfBIGM)
             /\ decode_solution(y, inst).branch = "ok"
             /\ Same(ls_best_cost, decode_solution(y, inst).cost))

\* a run without limit whose first iteration is over and was a discard: the
\* best is still the infeasible all-ones vector, which any candidate of a
\* local search would have replaced
C16_Witness ==
    /\ pc = "iter" /\ it >= 1 /\ time_limit = None
    /\ Ge(best_cost, HalfBIGM)
    /\ best_y = AllOnes(inst.T)
    /\ Len(log) = 1

(***************************************************************************)
(* C17.  best_y is never aliased with an iteration's working vector: the   *)
(* in-place flips of local_search never change the driver's best_y, and    *)
(* best_y changes only in an iteration whose improved cost is strictly     *)
(* lower than best_cost (a tie leaves best_y, best_cost and the log        *)
(* unchanged), in the solvers variant of grasp and in the benchmark one.   *)
(***************************************************************************)
C17_BestNotAliased ==
    \* no other name is bound to the list of best_y
    /\ [](refs.best # 0 => \A n \in Names \ {"best"} : refs[n] # refs.best)
    \* no step of local_search changes best_y
    /\ [][(pc \in {"ls_start", "ls_while", "ls_for", "ls_flip"}) =>
             (best_y' = best_y)]_vars
    \* best_y changes only to a vector of strictly lower cost
    /\ [][(pc # "start" /\ best_y' # best_y) =>
             /\ pc = "ls_return"
             /\ Lt(ls_best_cost, best_cost)
             /\ best_y' = y /\ best_cost' = ls_best_cost]_vars
    \* a tie, or worse, changes nothing
    /\ [][(pc = "ls_return" /\ ~ Lt(ls_best_cost, best_cost)) =>
             UNCHANGED <<best_y, best_cost, log>>]_vars

\* the benchmark variant in a local search that has flipped, in place, the
\* list the constructor made, after an earlier iteration improved best_y
C17_Witness ==
    /\ variant = "benchmark"
    /\ InLocalSearch
    /\ SameList(refs, "drv", "ls")
    /\ y # y_start
    /\ best_y # AllOnes(inst.T)
    /\ best_y # y

(***************************************************************************)
(* C18.  greedy_randomized_construction always terminates and makes        *)
(* progress: the cursor t strictly increases at every step (by the chosen  *)
(* L >= 1, or by 1 when the setup is forced) and never passes the end of   *)
(* the horizon; the result has a setup in the first period, has setups     *)
(* exactly at the positions the cursor visited, and consecutive setups are *)
(* at most max(1, L_max) periods apart.  The cursor is 1-based here: the   *)
(* horizon is 1..T and the loop is left at T + 1.                          *)
(***************************************************************************)
MaxGap == IF L_max > 1 THEN L_max ELSE 1
\* the periods the cursor has not passed
Remaining == inst.T + 1 - t
\* the setups of v before position n
SetupsBefore(v, n) == { k \in 1..(n - 1) : v[k] = 1 }
\* from every setup before n, the next setup or n is within MaxGap
GapsWithin(v, n) ==
    \A k \in SetupsBefore(v, n) :
       \E j \in (k + 1)..(k + MaxGap) : j = n \/ (j < n /\ v[j] = 1)

C18_ConstructorProgress ==
    \* a step puts a setup at the cursor, nowhere else, and moves the cursor
    \* forward by at most MaxGap, not beyond the end
    /\ [][pc = "construct" =>
             /\ yc' = [yc EXCEPT ![t] = 1]
             /\ t' > t /\ t' - t <= MaxGap /\ t' <= inst.T + 1
             /\ pc' = "constructed" <=> t' = inst.T + 1]_vars
    \* nothing at or after the cursor has a setup: the setups are the
    \* positions visited
    /\ [](pc \in {"construct", "constructed"} =>
             /\ \A k \in t..inst.T : yc[k] = 0
             /\ t > 1 => yc[1] = 1
             /\ GapsWithin(yc, t))
    \* as long as the loop runs a step is possible, and it lowers Remaining:
    \* the loop is left after at most T steps
    /\ [](pc = "construct" =>
             /\ t <= inst.T
             /\ Candidates(inst, t, L_max) # {} =>
                   RCL(Candidates(inst, t, L_max), alpha) # {})
    /\ [](Remaining >= 0 /\ (pc = "constructed" <=> Remaining = 0))
    /\ [][Remaining' < Remaining]_vars

\* a vector returned after a forced setup and a lot of two periods or more
C18_Witness ==
    /\ pc = "constructed"
    /\ \E k \in 1..(inst.T - 1) : yc[k] = 1 /\ yc[k + 1] = 1
    /\ \E k \in 1..inst.T : yc[k] = 0
    /\ \E k \in 1..inst.T : Candidates(inst, k, L_max) = {} /\ yc[k] = 1

(***************************************************************************)
(* C19.  For every lot [t, end] that passes the constructor's capacity     *)
(* filter, the hold_cost used for ranking equals the holding cost of the   *)
(* plan that produces the whole lot demand in period t and holds each unit *)
(* until the period in which it is consumed: the sum of h[k] * I[k] that   *)
(* decode_solution charges for that lot when the only setup is at t.  It   *)
(* does not: lines 131-133 charge period k for the demand of t+1..k, what  *)
(* has been consumed after t, where the plan holds the demand of k+1..end. *)
(***************************************************************************)
\* the periods t0 .. t0 + L - 1 of the instance, as an instance
Lot(in, t0, L) ==
    [T |-> L,
     d |-> [k \in 1..L |-> in.d[t0 + k - 1]],
     C |-> [k \in 1..L |-> in.C[t0 + k - 1]],
     s |-> [k \in 1..L |-> in.s[t0 + k - 1]],
     p |-> [k \in 1..L |-> in.p[t0 + k - 1]],
     h |-> [k \in 1..L |-> in.h[t0 + k - 1]]]
SetupFirst(L) == [k \in 1..L |-> IF k = 1 THEN 1 ELSE 0]
RECURSIVE Holding(_, _, _)
Holding(h, Iv, n) == IF n = 0 THEN 0 ELSE h[n] * Iv[n] + Holding(h, Iv, n - 1)

C19_HoldCostIsDecodedHolding ==
    (pc = "construct" /\ t <= inst.T) =>
       \A L \in CandidateLengths(inst, t, L_max) :
          LET lot == Lot(inst, t, L)
              r   == decode_solution(SetupFirst(L), lot)
          IN  /\ r.branch = "ok"
              /\ HoldCost(inst, t, t + L - 1) = Holding(lot.h, r.I, L)

(***************************************************************************)
(* C20.  Whenever decode_solution returns a plan (X, I, cost) for          *)
(* non-negative d and C, the plan satisfies the lot-sizing constraints of  *)
(* the MIP model: 0 <= X[t] <= C[t], and X[t] = 0 wherever y[t] = 0;       *)
(* I[t] = I[t-1] + X[t] - d[t] with no inventory before the first period;  *)
(* I[t] >= 0; all demand is produced (the X sum to the total demand, the   *)
(* final inventory is 0); and cost is the sum over t of                    *)
(* s[t] * y[t] + p[t] * X[t] + h[t] * I[t].  The model's quantities are    *)
(* whole numbers, so "within 1e-6" is exact here.                          *)
(***************************************************************************)
\* sum(d[t:]), the tail demand of the MIP's bound on X[t]
TailDemand(in, k) == SumRange(in.d, k, in.T)
RECURSIVE SetupCost(_, _, _)
SetupCost(in, yv, n) ==
    IF n = 0 THEN Zero ELSE Add(Scale(yv[n], in.s[n]), SetupCost(in, yv, n - 1))
RECURSIVE LinearCost(_, _, _, _)
LinearCost(in, Xv, Iv, n) ==
    IF n = 0 THEN 0
    ELSE in.p[n] * Xv[n] + in.h[n] * Iv[n] + LinearCost(in, Xv, Iv, n - 1)

C20_PlanSatisfiesMIP ==
    (pc = "decoded" /\ res.X # None) =>
       LET T == inst.T
       IN  /\ \A k \in 1..T :
                /\ 0 <= res.X[k]
                /\ res.X[k] <= y[k] * Min2(inst.C[k], TailDemand(inst, k))
                /\ res.I[k] = (IF k = 1 THEN 0 ELSE res.I[k - 1]) + res.X[k] - inst.d[k]
                /\ res.I[k] >= 0
           /\ SumTo(res.X, T) = TotalDemand(inst)
           /\ res.I[T] = 0
           /\ Same(res.cost, Add(SetupCost(inst, y, T),
                                 Int2Num(LinearCost(inst, res.X, res.I, T))))

\* a plan with a period without setup, a period producing at capacity for
\* later periods, and stock carried over
C20_Witness ==
    /\ pc = "decoded" /\ res.X # None
    /\ \E k \in 1..inst.T : y[k] = 0 /\ inst.d[k] > 0
    /\ \E k \in 1..inst.T : res.X[k] = inst.C[k] /\ res.X[k] > inst.d[k]
    /\ \E k \in 1..inst.T : res.I[k] > 0

(***************************************************************************)
(* C21.  decode_solution is complete for feasibility: it returns a         *)
(* penalized score (no plan) if and only if no production plan X with      *)
(* 0 <= X[t] <= C[t]*y[t] keeps the inventory non-negative in every period *)
(* while meeting all demand.                                               *)
(* The most that can be produced up to period j is the capacity of the     *)
(* setups up to j: a plan exists exactly if, for every j, this covers the  *)
(* demand up to j.  The sums below are exact, not doubles.                 *)
(***************************************************************************)
RECURSIVE Deficit(_, _, _)
Deficit(yv, in, j) ==
    IF j = 0 THEN DZero
    ELSE LET before == Deficit(yv, in, j - 1)
         IN  Dbl(before.w + in.d[j].w - yv[j] * in.C[j].w,
                 before.f + in.d[j].f - yv[j] * in.C[j].f)

PlanExists(yv, in) == \A j \in 1..in.T : DSign(Deficit(yv, in, j)) <= 0
\* every plan is more than 2e-6 (268.4 units) short of the demand
FarFromAnyPlan(yv, in) ==
    \E j \in 1..in.T :
        LET s == Deficit(yv, in, j) IN s.w > 0 \/ (s.w = 0 /\ s.f > 2 * TolFloor)

ConstructedD == pc \in {"d_kept", "d_discarded"}
RECURSIVE LotStart(_, _)
LotStart(lots, i) == IF i = 1 THEN 1 ELSE LotStart(lots, i - 1) + lots[i - 1]
NeverForcedD == LotStart(trace.lots, Len(trace.lots) + 1) = inst.T + 1
\* dem = sum(d[t:end+1]) of the lot of length L at t0
RECURSIVE LotDemandD(_, _, _)
LotDemandD(in, t0, L) ==
    IF L = 0 THEN DZero ELSE DAdd(LotDemandD(in, t0, L - 1), in.d[t0 + L - 1])
\* the plan produces the demand of each lot at its start and nothing
\* in between
LotsAtStartD ==
    /\ res.branch = "ok"
    /\ \A i \in 1..Len(trace.lots) :
          LET t0 == LotStart(trace.lots, i)
          IN  /\ res.X[t0] = LotDemandD(inst, t0, trace.lots[i])
              /\ \A k \in (t0 + 1)..(t0 + trace.lots[i] - 1) : res.X[k] = DZero
\* no lot asks more than the capacity of its start period
LotsWithinCapacityD ==
    \A i \in 1..Len(trace.lots) :
        LET t0 == LotStart(trace.lots, i)
        IN  ~ DLt(inst.C[t0], LotDemandD(inst, t0, trace.lots[i]))

\* the same on whole numbers, for the vector v returned
LotLength(v, k) ==
    LET later == { j \in (k + 1)..inst.T : v[j] = 1 }
    IN  (IF later = {} THEN inst.T + 1
         ELSE CHOOSE j \in later : \A o \in later : j <= o) - k
NeverForcedW(v) ==
    \A k \in 1..inst.T : v[k] = 1 => CandidateLengths(inst, k, L_max) # {}
LotsAtStartW(v) ==
    LET r == decode_solution(v, inst)
    IN  /\ r.branch = "ok"
        /\ \A k \in 1..inst.T :
              /\ v[k] = 1 => r.X[k] = LotDemand(inst, k, LotLength(v, k))
              /\ v[k] = 0 => r.X[k] = 0
        /\ \A k \in 1..inst.T : r.I[k] >= 0
LotsWithinCapacityW(v) ==
    \A k \in 1..inst.T :
        v[k] = 1 => LotDemand(inst, k, LotLength(v, k)) <= inst.C[k]
DiscardedW(v) == Ge(decode_solution(v, inst).cost, HalfBIGM)

WholeNumbers(in) == \A k \in 1..in.T : in.d[k].f = 0 /\ in.C[k].f = 0
DecodedD == pc \in {"d_decoded", "d_kept", "d_discarded"}

\* C23 as stated: no decode ends in the shortfall branch
C23_ShortfallUnreachable == DecodedD => res.branch # "short"

\* C23, amended: with whole-number d and C no decode ends in the shortfall
\* branch; with other data one can, after a backward pass that left
\* unmet demand within the tolerance: the vector then has no plan, and
\* the shortfall found is one rounding step beyond 1e-6 at most
C23_ShortfallOnlyByRounding ==
    DecodedD =>
        /\ WholeNumbers(inst) => res.branch # "short"
        /\ res.branch = "short" =>
              /\ ~ PlanExists(y, inst)
              /\ res.viol.w = 0 /\ res.viol.f <= TolFloor + Grid(Big)

\* a decode of whole-number data whose backward pass met all demand with
\* production carried over periods, and went through the forward pass
C23_Witness ==
    /\ pc = "d_decoded"
    /\ WholeNumbers(inst)
    /\ res.branch = "ok"
    /\ \E k \in 1..inst.T : y[k] = 0 /\ inst.d[k] = Big
    /\ \E k \in 1..inst.T : res.I[k] = Big

====
